---- MODULE Spec2Model ----
(***************************************************************************)
(* Tree construction of gnf/builder.py: build_tree turns a sequence of     *)
(* rows (process, label, module, params) into an anytree tree in two       *)
(* passes and validates the root; traverse_tree iterates it level by       *)
(* level.  Strings are sequences of one-character strings, so that         *)
(* str.replace, str.split and the substring test are computed as Python    *)
(* computes them.  Node instances live in a heap (a sequence of records,   *)
(* an instance is its index); the registry `nodes` maps a name to an       *)
(* instance, as the dict of build_tree does.                               *)
(***************************************************************************)
EXTENDS Integers, Sequences, FiniteSets, TLC

\* ---------------------------------------------------------------- bounds
MaxRows == 3
MaxAttrRows == 2

\* ------------------------------------------------------- string functions
None == 0

Arrow == <<"-", ">">>
Pipe == <<"|">>
Equals == <<"=">>

RECURSIVE replace_space(_)
\* x.replace(' ', '')
replace_space(x) ==
    IF x = <<>> THEN <<>>
    ELSE IF Head(x) = " " THEN replace_space(Tail(x))
    ELSE <<Head(x)>> \o replace_space(Tail(x))

strip_process(x) == replace_space(x)

StartsWith(x, d) ==
    /\ Len(x) >= Len(d)
    /\ SubSeq(x, 1, Len(d)) = d

\* d in x  (substring test on the raw string)
Contains(x, d) ==
    \E k \in 1..Len(x) : StartsWith(SubSeq(x, k, Len(x)), d)

RECURSIVE SplitAcc(_, _, _)
\* x.split(d) for a non-empty delimiter d; cur is the segment being read
SplitAcc(x, d, cur) ==
    IF x = <<>> THEN <<cur>>
    ELSE IF StartsWith(x, d)
         THEN <<cur>> \o SplitAcc(SubSeq(x, Len(d) + 1, Len(x)), d, <<>>)
         ELSE SplitAcc(Tail(x), d, cur \o <<Head(x)>>)

Split(x, d) == SplitAcc(x, d, <<>>)

\* split_process returns s[0], s[1]; s[1] raises IndexError when absent
split_process_ok(x) == Len(Split(x, Arrow)) >= 2
split_process(x) == <<Split(x, Arrow)[1], Split(x, Arrow)[2]>>

\* the list s of split_params: every '|' segment split on '='
ParamSegments(x) == [k \in 1..Len(Split(x, Pipe)) |-> Split(Split(x, Pipe)[k], Equals)]

\* i[1] raises IndexError for a segment without '='
split_params_ok(x) == \A k \in 1..Len(ParamSegments(x)) : Len(ParamSegments(x)[k]) >= 2

\* the dict d of split_params: a later segment with the same key wins
split_params(x) ==
    LET s == ParamSegments(x)
        key(k) == replace_space(s[k][1])
        last(q) == CHOOSE k \in 1..Len(s) :
                      /\ key(k) = q
                      /\ \A m \in 1..Len(s) : key(m) = q => m <= k
    IN [q \in {key(k) : k \in 1..Len(s)} |-> replace_space(s[last(q)][2])]

ChildKey == <<"c", "h", "i", "l", "d">>
ParentKey == <<"p", "a", "r", "e", "n", "t">>

\* ------------------------------------------------------------------ state
VARIABLES
    rows,     \* the rows of df, in iterrows order
    pc,       \* position in build_tree: pass1, pass2, roots, returned, raised
    i,        \* index of the row the running loop is at
    nodes,    \* the dict nodes: name -> instance
    heap,     \* the Generative_Node instances created so far
    tree,     \* the value build_tree returned (None before, and when it raised)
    error     \* the exception that left build_tree, and the expression raising it

vars == <<rows, pc, i, nodes, heap, tree, error>>

NoError == [kind |-> "none", at |-> "none"]
Raise(kind, at) == [kind |-> kind, at |-> at]

\* ------------------------------------------------------------------ nodes
NoKwargs == [q \in {} |-> <<>>]

\* Generative_Node(name): no parent, no children, no attribute set yet
new_node(name) ==
    [name |-> name, parent |-> None, children |-> <<>>, attachedAt |-> 0,
     set |-> FALSE, label |-> "", module |-> "", params |-> <<>>, kwargs |-> NoKwargs]

Put(d, key, val) == [q \in DOMAIN d \cup {key} |-> IF q = key THEN val ELSE d[q]]

\* get_node: the registered instance, or a new one registered under name
get_node(d, h, name) ==
    IF name \in DOMAIN d
    THEN [nodes |-> d, heap |-> h, node |-> d[name]]
    ELSE [nodes |-> Put(d, name, Len(h) + 1),
          heap |-> Append(h, new_node(name)),
          node |-> Len(h) + 1]

RECURSIVE Path(_, _)
\* node.path reversed: the node, its parent, ... up to the root of its tree
Path(h, n) == IF n = None THEN {} ELSE {n} \cup Path(h, h[n].parent)

\* anytree's loop check of the parent setter
IsLoop(h, c, p) == c \in Path(h, p)

Remove(s, e) == SelectSeq(s, LAMBDA y : y # e)

\* faulty variant: the new child is put in front of its siblings
attach_child_Front(children, c) == <<c>> \o children

\* anytree: the new child goes to the end of the parent's children
attach_child(children, c) == Append(children, c)

\* node_c.parent = node_p, when it raises no LoopError: nothing when p is
\* the parent already, else detach from the old parent and attach to p
set_parent(h, c, p, when) ==
    IF h[c].parent = p THEN h
    ELSE [n \in DOMAIN h |->
            IF n = c THEN [h[n] EXCEPT !.parent = p, !.attachedAt = when]
            ELSE IF n = p THEN [h[n] EXCEPT !.children = attach_child(h[n].children, c)]
            ELSE IF n = h[c].parent THEN [h[n] EXCEPT !.children = Remove(h[n].children, c)]
            ELSE h[n]]

\* the kwargs of pass 2: the parsed params, then 'child', then 'parent'
make_kwargs(h, n, params) ==
    LET k0 == split_params(params)
        k1 == Put(k0, ChildKey, h[n].name)
    IN IF h[n].parent # None THEN Put(k1, ParentKey, h[h[n].parent].name) ELSE k1

\* faulty variant: attributes that are set already are kept, the first row wins
set_node_KeepFirst(node, label, module, params, kwargs) ==
    IF node.set THEN node
    ELSE [node EXCEPT !.set = TRUE, !.label = label, !.module = module,
                      !.params = params, !.kwargs = kwargs]

\* set_node(node, label=, module=, params=, kwargs=)
set_node(node, label, module, params, kwargs) ==
    [node EXCEPT !.set = TRUE, !.label = label, !.module = module,
                 !.params = params, !.kwargs = kwargs]

\* faulty variant: the is_root filter is dropped
Roots_AnyRegistered(d, h) == {d[q] : q \in DOMAIN d}

\* roots = [node for process, node in nodes.items() if node.is_root]
Roots(d, h) == {d[q] : q \in {r \in DOMAIN d : h[d[r]].parent = None}}

\* faulty variant: the length test is off by one, two roots pass
pick_root_TwoAllowed(roots) ==
    IF Cardinality(roots) > 2 THEN [tree |-> None, error |-> Raise("ValueError", "roots")]
    ELSE IF roots = {} THEN [tree |-> None, error |-> Raise("IndexError", "roots[0]")]
    ELSE [tree |-> CHOOSE r \in roots : TRUE, error |-> NoError]

\* len(roots) > 1 raises ValueError, else roots[0] (IndexError on an empty list)
pick_root(roots) ==
    IF Cardinality(roots) > 1 THEN [tree |-> None, error |-> Raise("ValueError", "roots")]
    ELSE IF roots = {} THEN [tree |-> None, error |-> Raise("IndexError", "roots[0]")]
    ELSE [tree |-> CHOOSE r \in roots : TRUE, error |-> NoError]

\* ----------------------------------------------------------------- inputs
RECURSIVE SeqsUpTo(_, _)
SeqsUpTo(S, n) ==
    IF n = 0 THEN {<<>>}
    ELSE LET shorter == SeqsUpTo(S, n - 1)
         IN shorter \cup {Append(q, e) : q \in {r \in shorter : Len(r) = n - 1}, e \in S}

Row(process, label, module, params) ==
    [process |-> process, label |-> label, module |-> module, params |-> params]

\* relations over three names, one well-formed params string: the structure
StructNames == {<<"A">>, <<"B">>, <<"C">>}
StructProcesses == {p \o Arrow \o c : p \in StructNames \cup {<<>>}, c \in StructNames}
StructRows == {Row(x, "l1", "m1", <<"k", "=", "1">>) : x \in StructProcesses}

\* the rows of a two-node file as written in a CSV, with the rows and the
\* params pass 1 and pass 2 treat differently
AttrProcesses ==
    { <<"-", ">", " ", "A">>,                 \* '-> A'
      <<"A", " ", "-", ">", " ", "B">>,       \* 'A -> B'
      <<"-", " ", ">", " ", "B">>,            \* '- > B': no '->' until stripped
      <<"A">>,                                \* no delimiter
      <<>> }                                  \* empty
AttrParams ==
    { <<>>,                                                      \* ''
      <<"k", "=", "1">>,                                         \* 'k=1'
      <<"k", " ", "=", " ", "2", "|", "c", "h", "i", "l", "d", "=", "9">>,  \* 'k = 2|child=9'
      <<"k">> }                                                  \* no '='
AttrRows ==
    {Row(x, lm[1], lm[2], q) :
        x \in AttrProcesses, lm \in {<<"l1", "m1">>, <<"l2", "m2">>}, q \in AttrParams}

Inputs == SeqsUpTo(StructRows, MaxRows) \cup SeqsUpTo(AttrRows, MaxAttrRows)

Init ==
    /\ rows \in Inputs
    /\ pc = "pass1"
    /\ i = 1
    /\ nodes = [q \in {} |-> None]
    /\ heap = <<>>
    /\ tree = None
    /\ error = NoError

\* ------------------------------------------------------------------ pass 1
AtRow(p) == pc = p /\ i <= Len(rows)

\* line 68: the row is skipped when the raw process has no '->'
Skipped(x) == x = <<>> \/ ~Contains(x, Arrow)

Pass1Skip ==
    /\ AtRow("pass1")
    /\ Skipped(rows[i].process)
    /\ i' = i + 1
    /\ UNCHANGED <<rows, pc, nodes, heap, tree, error>>

\* line 74: '-> N' registers a new instance under N, whatever was there
Pass1Root ==
    /\ AtRow("pass1")
    /\ ~Skipped(rows[i].process)
    /\ LET s == split_process(strip_process(rows[i].process))
       IN /\ s[1] = <<>>
          /\ heap' = Append(heap, new_node(s[2]))
          /\ nodes' = Put(nodes, s[2], Len(heap) + 1)
    /\ i' = i + 1
    /\ UNCHANGED <<rows, pc, tree, error>>

\* lines 76-78: get both nodes, then node_c.parent = node_p
Pass1Relation ==
    /\ AtRow("pass1")
    /\ ~Skipped(rows[i].process)
    /\ LET s == split_process(strip_process(rows[i].process))
           gp == get_node(nodes, heap, s[1])
           gc == get_node(gp.nodes, gp.heap, s[2])
       IN /\ s[1] # <<>>
          /\ nodes' = gc.nodes
          /\ IF gc.heap[gc.node].parent # gp.node /\ IsLoop(gc.heap, gc.node, gp.node)
             THEN /\ heap' = gc.heap
                  /\ pc' = "raised"
                  /\ error' = Raise("LoopError", "node_c.parent")
                  /\ i' = i
             ELSE /\ heap' = set_parent(gc.heap, gc.node, gp.node, i)
                  /\ i' = i + 1
                  /\ UNCHANGED <<pc, error>>
    /\ UNCHANGED <<rows, tree>>

Pass1End ==
    /\ pc = "pass1"
    /\ i > Len(rows)
    /\ pc' = "pass2"
    /\ i' = 1
    /\ UNCHANGED <<rows, nodes, heap, tree, error>>

\* ------------------------------------------------------------------ pass 2
\* the first expression of lines 87-91 that raises at this row, if any
Pass2Error(r) ==
    LET x == strip_process(r.process)
    IN IF ~split_process_ok(x) THEN Raise("IndexError", "split_process")
       ELSE IF split_process(x)[2] \notin DOMAIN nodes THEN Raise("KeyError", "nodes[s2]")
       ELSE IF ~split_params_ok(r.params) THEN Raise("IndexError", "split_params")
       ELSE NoError

Pass2Set ==
    /\ AtRow("pass2")
    /\ Pass2Error(rows[i]) = NoError
    /\ LET r == rows[i]
           s == split_process(strip_process(r.process))
           n == nodes[s[2]]
       IN heap' = [heap EXCEPT ![n] =
                     set_node(heap[n], r.label, r.module, r.params,
                              make_kwargs(heap, n, r.params))]
    /\ i' = i + 1
    /\ UNCHANGED <<rows, pc, nodes, tree, error>>

Pass2Raise ==
    /\ AtRow("pass2")
    /\ Pass2Error(rows[i]) # NoError
    /\ pc' = "raised"
    /\ error' = Pass2Error(rows[i])
    /\ UNCHANGED <<rows, i, nodes, heap, tree>>

\* ---------------------------------------------------------- root validation
Validate ==
    /\ pc = "pass2"
    /\ i > Len(rows)
    /\ LET out == pick_root(Roots(nodes, heap))
       IN /\ tree' = out.tree
          /\ error' = out.error
          /\ pc' = IF out.error = NoError THEN "returned" ELSE "raised"
    /\ UNCHANGED <<rows, i, nodes, heap>>

Next ==
    \/ Pass1Skip
    \/ Pass1Root
    \/ Pass1Relation
    \/ Pass1End
    \/ Pass2Set
    \/ Pass2Raise
    \/ Validate

Spec == Init /\ [][Next]_vars

\* --------------------------------------------------------------- traversal
RECURSIVE ChildrenOf(_, _)
\* the children of the nodes of one level, concatenated in order
ChildrenOf(h, level) ==
    IF level = <<>> THEN <<>>
    ELSE h[Head(level)].children \o ChildrenOf(h, Tail(level))

RECURSIVE LevelOrder(_, _)
\* LevelOrderIter: yield the nodes of a level, then go on with their children
LevelOrder(h, level) ==
    IF level = <<>> THEN <<>>
    ELSE level \o LevelOrder(h, ChildrenOf(h, level))

traverse_tree(t) == LevelOrder(heap, <<t>>)

\* ------------------------------------------------------ notions of the claims
\* both passes ran to their end: build_tree is at, or past, the root validation
PassesDone == pc = "returned" \/ (pc = "raised" /\ error.at \in {"roots", "roots[0]"})

\* pass 1 ran to its end
Pass1Done == pc \in {"pass2", "returned"} \/ (pc = "raised" /\ error.at # "node_c.parent")

\* the names registered to an instance without a parent
Rootless == {q \in DOMAIN nodes : heap[nodes[q]].parent = None}

\* the two segments pass 1 reads from row j, for a row it does not skip
ParentSeg(j) == split_process(strip_process(rows[j].process))[1]
ChildSeg(j) == split_process(strip_process(rows[j].process))[2]
RootRow(j) == ~Skipped(rows[j].process) /\ ParentSeg(j) = <<>>
RelationRow(j) == ~Skipped(rows[j].process) /\ ParentSeg(j) # <<>>

\* the rows whose child segment, as pass 2 derives it, is the name q
NamingRows(q) ==
    {j \in 1..Len(rows) :
        /\ split_process_ok(strip_process(rows[j].process))
        /\ ChildSeg(j) = q}

\* 'parent->child' or '->root' with a well-formed params field
WellFormedRow(r) ==
    /\ ~Skipped(r.process)
    /\ Len(Split(strip_process(r.process), Arrow)) = 2
    /\ Split(strip_process(r.process), Arrow)[2] # <<>>
    /\ split_params_ok(r.params)

\* the instances of the tree below (and including) t, by their parent links
InTree(t) == {n \in DOMAIN heap : t \in Path(heap, n)}

RECURSIVE Depth(_)
Depth(n) == IF heap[n].parent = None THEN 0 ELSE 1 + Depth(heap[n].parent)

\* ------------------------------------------------------------------ claims

\* C1: for well-formed rows, when build_tree has ended, all rows were linked
\* (no LoopError stopped pass 1) and exactly one registered node has no
\* parent, build_tree has returned that node
C1_SingleRootReturned ==
    ( /\ pc \in {"returned", "raised"}
      /\ error.kind # "LoopError"
      /\ \A j \in 1..Len(rows) : WellFormedRow(rows[j])
      /\ Cardinality(Rootless) = 1 )
        => /\ pc = "returned"
           /\ \A q \in Rootless : tree = nodes[q]

C1_Witness ==
    /\ pc = "returned"
    /\ Len(rows) >= 2
    /\ Cardinality(DOMAIN nodes) = 3
    /\ \A j \in 1..Len(rows) : WellFormedRow(rows[j])
    /\ tree # None /\ heap[tree].children # <<>>

\* C2: every non-root node of the returned tree has kwargs['parent'] equal to
\* its parent's name and kwargs['child'] equal to its own name
C2_KwargsNameParentAndChild ==
    pc = "returned" =>
        \A n \in InTree(tree) :
            heap[n].parent # None =>
                /\ heap[n].set
                /\ {ParentKey, ChildKey} \subseteq DOMAIN heap[n].kwargs
                /\ heap[n].kwargs[ParentKey] = heap[heap[n].parent].name
                /\ heap[n].kwargs[ChildKey] = heap[n].name

\* C3: with no rootless registered node, or more than one, after both passes,
\* build_tree raises and returns no tree
C3_RootCountError ==
    (PassesDone /\ Cardinality(Rootless) # 1)
        => pc = "raised" /\ tree = None /\ error.kind \in {"ValueError", "IndexError"}

C3_Witness ==
    /\ pc = "raised"
    /\ error.at = "roots"
    /\ \E j, k \in 1..Len(rows) :
          RootRow(j) /\ RootRow(k) /\ ChildSeg(j) # ChildSeg(k)

\* C4: a name resolves to one instance: the returned structure never holds two
\* distinct nodes of the same name
C4_OneInstancePerName ==
    pc = "returned" =>
        \A n, m \in InTree(tree) : heap[n].name = heap[m].name => n = m

\* C5: last relation wins: after pass 1, when 'A -> B' is followed by 'X -> B'
\* and no later row names B as its child, B's parent is X, no node A has a
\* child B and exactly one node B has a parent
C5_LastRelationWins ==
    Pass1Done =>
        \A j, k \in 1..Len(rows) :
            ( /\ j < k /\ RelationRow(j) /\ RelationRow(k)
              /\ ChildSeg(j) = ChildSeg(k) /\ ParentSeg(j) # ParentSeg(k)
              /\ \A m \in (k + 1)..Len(rows) :
                    ~Skipped(rows[m].process) => ChildSeg(m) # ChildSeg(k) )
            => LET b == nodes[ChildSeg(k)]
               IN /\ heap[b].parent # None
                  /\ heap[heap[b].parent].name = ParentSeg(k)
                  /\ \A n \in DOMAIN heap :
                        heap[n].name = ParentSeg(j) =>
                            \A c \in 1..Len(heap[n].children) :
                                heap[heap[n].children[c]].name # ChildSeg(k)
                  /\ Cardinality({n \in DOMAIN heap :
                        heap[n].name = ChildSeg(k) /\ heap[n].parent # None}) = 1

\* C6: a row with the empty params string is processed by pass 2: pass 2 never
\* raises at a row whose relation is valid, whose child is registered and
\* whose params is ''
C6_EmptyParamsAccepted ==
    (pc = "raised" /\ error.at \in {"split_process", "nodes[s2]", "split_params"})
        => ~ ( /\ rows[i].params = <<>>
               /\ split_process_ok(strip_process(rows[i].process))
               /\ ChildSeg(i) \in DOMAIN nodes )

\* C7: build_tree returns no tree for a row sequence holding a row whose
\* process is empty or has no '->'
C7_UndelimitedRowFatal ==
    (\E j \in 1..Len(rows) : Skipped(rows[j].process)) => pc # "returned"

\* C8: after pass 2 the label, module, params and kwargs of every registered
\* node are those of the last row naming it as child, kwargs['parent'] being
\* the name of its final parent
C8_LastRowSetsAttributes ==
    PassesDone =>
        \A q \in DOMAIN nodes :
            NamingRows(q) # {} =>
                LET j == CHOOSE m \in NamingRows(q) : \A o \in NamingRows(q) : o <= m
                    n == heap[nodes[q]]
                    given == split_params(rows[j].params)
                    injected == {ChildKey} \cup (IF n.parent = None THEN {} ELSE {ParentKey})
                IN /\ n.set
                   /\ n.label = rows[j].label
                   /\ n.module = rows[j].module
                   /\ n.params = rows[j].params
                   /\ DOMAIN n.kwargs = DOMAIN given \cup injected
                   /\ n.kwargs[ChildKey] = q
                   /\ n.parent # None => n.kwargs[ParentKey] = heap[n.parent].name
                   /\ \A key \in DOMAIN given \ injected : n.kwargs[key] = given[key]

C8_Witness ==
    /\ pc = "returned"
    /\ \E q \in DOMAIN nodes :
          /\ heap[nodes[q]].parent # None
          /\ \E j, k \in NamingRows(q) :
                /\ j < k
                /\ rows[j].label # rows[k].label
                /\ rows[j].params # rows[k].params
                /\ Skipped(rows[k].process)

\* C9: traverse_tree yields the root first, then the root's children in the
\* order of their (last) attachment, every node of a depth before any deeper
\* node, and each node of the tree exactly once
C9_LevelOrder ==
    pc = "returned" =>
        LET t == traverse_tree(tree)
            kids == {n \in DOMAIN heap : heap[n].parent = tree}
        IN /\ t[1] = tree
           /\ {t[k] : k \in 1..Len(t)} = InTree(tree)
           /\ Len(t) = Cardinality(InTree(tree))
           /\ \A k, m \in 1..Len(t) : k < m => Depth(t[k]) <= Depth(t[m])
           /\ \A k, m \in 2..Len(t) :
                 (t[k] \in kids /\ t[m] \in kids /\ heap[t[k]].attachedAt < heap[t[m]].attachedAt)
                    => k < m

C9_Witness ==
    /\ pc = "returned"
    /\ Len(heap[tree].children) = 2
    /\ heap[tree].children[1] > heap[tree].children[2]
    /\ traverse_tree(tree) = <<tree>> \o heap[tree].children

\* C10: every name that got a node during the build names a node of the
\* returned tree
C10_AllNodesInTree ==
    pc = "returned" =>
        \A q \in DOMAIN nodes : \E n \in InTree(tree) : heap[n].name = q


\* ------------------------------------------------- the reach of the failures
\* no root declaration row names a name an earlier row has used already
NoRedeclaration ==
    \A j \in 1..Len(rows) :
        RootRow(j) =>
            \A m \in 1..(j - 1) :
                ~Skipped(rows[m].process) =>
                    ChildSeg(j) # ChildSeg(m) /\ ChildSeg(j) # ParentSeg(m)

\* the statements of C2, C4, C5 and C10 hold of every input in which line 74
\* never replaces a registered instance
HoldsWithoutRedeclaration ==
    NoRedeclaration =>
        /\ C2_KwargsNameParentAndChild
        /\ C4_OneInstancePerName
        /\ C5_LastRelationWins
        /\ C10_AllNodesInTree

\* a row with no '->' once its blanks are removed is fatal
StrippedUndelimitedRowFatal ==
    (\E j \in 1..Len(rows) : ~Contains(strip_process(rows[j].process), Arrow))
        => pc # "returned"

====
